---- MODULE Spec2Model ----
(***************************************************************************)
(* superdup: per-directory backup pipeline (backup -> prune -> verify or   *)
(* check) around the duplicacy command line tool, with a persisted store   *)
(* of verification stamps and a run summary that drives the exit status.   *)
(*                                                                         *)
(* Text is modelled as a sequence of chunks: each chunk is one piece of    *)
(* text ("Snapshot", " ", "revision", an id character, a digit).  A line   *)
(* of tool output is a sequence of chunks, without its newline.  Time is   *)
(* counted in whole days.  An exception is the name of its kind; "none"    *)
(* means the call returned normally.                                       *)
(***************************************************************************)
EXTENDS Integers, Sequences, FiniteSets, TLC

\* ------------------------------------------------------------------ bounds
NumDirs == 2
MaxTime == 91
\* the lines a child process writes, and the lines a pipe holds before a
\* write to it blocks
MaxWrites == 3
PipeCap == 1

\* timedelta(days=90)
VERIFY_DAYS == 90

\* the entries of source_path_dirs, in iteration order
Dirs == 1..NumDirs

\* ------------------------------------------------------------------- text
Whitespace == {" "}
Digits == {"5", "7"}

SnapLine(rev) == <<"Snapshot", " ", "a", " ", "revision", " ", rev>>

\* what the tool may print on stdout for "list": one snapshot line, two of
\* them, a line of another shape (with trailing blanks), a snapshot
\* line followed by a line that starts with a digit, and the words of a
\* snapshot line broken over two lines
ListOutputs ==
    { <<SnapLine("5")>>,
      <<SnapLine("5"), SnapLine("7")>>,
      <<<<"a", " ", "7", " ">>>>,
      <<SnapLine("5"), <<"7", " ", "a">>>>,
      <<<<"Snapshot">>, <<" ", "a", " ", "revision", " ", "5">>>> }

ErrLine == <<"a">>

\* str.rstrip(): trailing whitespace (the newline included) is removed
RECURSIVE rstrip(_)
rstrip(line) ==
    IF line = <<>> THEN <<>>
    ELSE IF line[Len(line)] \in Whitespace
         THEN rstrip(SubSeq(line, 1, Len(line) - 1))
         ELSE line

\* read_stream: output += line.decode().rstrip() for every line read
RECURSIVE read_stream(_)
read_stream(lines) ==
    IF lines = <<>> THEN <<>>
    ELSE rstrip(Head(lines)) \o read_stream(Tail(lines))

\* index of the last element of the maximal run of chunks of class C that
\* starts at i (i - 1 when s[i] is not in the class): a greedy + or *
RunEnd(s, i, C) ==
    LET stops == { k \in i..Len(s) : s[k] \notin C }
    IN  IF stops = {} THEN Len(s)
        ELSE (CHOOSE k \in stops : \A m \in stops : k <= m) - 1

NonSpace(s) == { s[k] : k \in 1..Len(s) } \ Whitespace

\* one match of  Snapshot (\S+) revision (\d+)  starting at chunk i;
\* end = 0 when the pattern does not match there
MatchAt(s, i) ==
    LET j == RunEnd(s, i + 2, NonSpace(s))
        k == RunEnd(s, j + 4, Digits)
    IN  IF /\ i + 1 <= Len(s)
           /\ s[i] = "Snapshot"
           /\ s[i + 1] = " "
           /\ j >= i + 2
           /\ j + 3 <= Len(s)
           /\ s[j + 1] = " "
           /\ s[j + 2] = "revision"
           /\ s[j + 3] = " "
           /\ k >= j + 4
        THEN [id |-> SubSeq(s, i + 2, j), rev |-> SubSeq(s, j + 4, k), end |-> k]
        ELSE [id |-> <<>>, rev |-> <<>>, end |-> 0]

\* re.findall: leftmost non-overlapping matches, scanning from chunk i
RECURSIVE findall_from(_, _)
findall_from(s, i) ==
    IF i > Len(s) THEN <<>>
    ELSE LET m == MatchAt(s, i)
         IN  IF m.end > 0
             THEN <<[id |-> m.id, rev |-> m.rev]>> \o findall_from(s, m.end + 1)
             ELSE findall_from(s, i + 1)

re_findall(s) == findall_from(s, 1)

\* ------------------------------------------------- the external tool's runs
\* one invocation of the executable: whether it can be spawned, its exit
\* code and the lines it writes
QuietRuns ==
    { [spawn |-> TRUE,  exitcode |-> 0, stdout |-> <<>>, stderr |-> <<>>],
      [spawn |-> TRUE,  exitcode |-> 1, stdout |-> <<>>, stderr |-> <<ErrLine>>],
      [spawn |-> FALSE, exitcode |-> 0, stdout |-> <<>>, stderr |-> <<>>] }

ListRuns ==
    { [spawn |-> TRUE, exitcode |-> 0, stdout |-> o, stderr |-> <<>>] : o \in ListOutputs }
    \cup QuietRuns

\* -------------------------------------------------------- Process Supervisor
duplicacy_command == <<"duplicacy">>

BackupCmd == << <<"backup">>, <<"-stats">> >>
PruneCmd ==
    << <<"prune">>, <<"-keep">>, <<"0:360">>, <<"-keep">>, <<"30:30">>,
       <<"-keep">>, <<"7:7">>, <<"-keep">>, <<"1:1">> >>
ListCmd == << <<"list">> >>
CheckCmd == << <<"check">> >>
CheckChunksCmd(latest_rev, snapshot_id) ==
    << <<"check">>, <<"-chunks">>, <<"-r">>, latest_rev, <<"-id">>, snapshot_id >>

\* call_duplicacy_async(command, cwd, dry_run): dry_run_arg is "None" when
\* the caller leaves the argument out.  The result is the call as it went:
\* launched says whether a process was created, raised is the exception the
\* call ends with, out and err are the captured texts (bound only when the
\* gather completed), stdout is what the process wrote.
call_duplicacy_async_live(command, cfg_dry_run, dry_run_arg, e) ==
    LET cmd == <<duplicacy_command>> \o command
    IN  IF ~e.spawn
        THEN [command |-> cmd, dry_run |-> FALSE, launched |-> FALSE,
              raised |-> "LaunchError",
              exitcode |-> 0, stdout |-> <<>>, out |-> <<>>, err |-> <<>>]
        ELSE [command |-> cmd, dry_run |-> FALSE, launched |-> TRUE,
              raised |-> IF e.exitcode # 0 THEN "CalledProcessError" ELSE "none",
              exitcode |-> e.exitcode, stdout |-> e.stdout,
              out |-> read_stream(e.stdout), err |-> read_stream(e.stderr)]

call_duplicacy_async(command, cfg_dry_run, dry_run_arg, e) ==
    LET dry_run == IF dry_run_arg = "None" THEN cfg_dry_run ELSE dry_run_arg = "True"
        cmd == <<duplicacy_command>> \o command
    IN  IF dry_run
        THEN [command |-> cmd, dry_run |-> TRUE, launched |-> FALSE, raised |-> "none",
              exitcode |-> 0, stdout |-> <<>>, out |-> <<>>, err |-> <<>>]
        ELSE IF ~e.spawn
        THEN [command |-> cmd, dry_run |-> FALSE, launched |-> FALSE,
              raised |-> "LaunchError",
              exitcode |-> 0, stdout |-> <<>>, out |-> <<>>, err |-> <<>>]
        ELSE [command |-> cmd, dry_run |-> FALSE, launched |-> TRUE,
              raised |-> IF e.exitcode # 0 THEN "CalledProcessError" ELSE "none",
              exitcode |-> e.exitcode, stdout |-> e.stdout,
              out |-> read_stream(e.stdout), err |-> read_stream(e.stderr)]

\* -------------------------------------------------- Verification Stamp Store
\* the store is the mapping kept in stamps.json; a missing file is the
\* mapping with no entry
EmptyStore == [d \in {} |-> 0]

\* load_stamps: read_ok = FALSE is open() raising IOError
load_stamps(store, read_ok) == IF read_ok THEN store ELSE EmptyStore

\* save_stamp: write_ok = FALSE is mkdir()/open(.., "w") raising
save_stamp(source_dir, store, now_, read_ok, write_ok) ==
    LET loaded == load_stamps(store, read_ok)
        updated == [d \in DOMAIN loaded \cup {source_dir} |->
                       IF d = source_dir THEN now_ ELSE loaded[d]]
    IN  IF write_ok
        THEN [raised |-> "none", store |-> updated]
        ELSE [raised |-> "WriteError", store |-> store]

is_verification_scheduled_ge(source_dir, store, now_, read_ok) ==
    LET loaded == load_stamps(store, read_ok)
    IN  IF source_dir \in DOMAIN loaded
        THEN IF now_ - loaded[source_dir] >= VERIFY_DAYS THEN TRUE ELSE FALSE
        ELSE TRUE

is_verification_scheduled(source_dir, store, now_, read_ok) ==
    LET loaded == load_stamps(store, read_ok)
    IN  IF source_dir \in DOMAIN loaded
        THEN IF now_ - loaded[source_dir] > VERIFY_DAYS THEN TRUE ELSE FALSE
        ELSE TRUE

\* ------------------------------------------------------------------- steps
\* a step function ends with [ret, raised, calls, store]: the value it
\* returns (meaningful when raised = "none"), the exception that escapes it,
\* the supervisor calls it made and the store it leaves
StepEnd(c, calls_, store) ==
    IF c.raised = "none"
    THEN [ret |-> TRUE, raised |-> "none", calls |-> calls_, store |-> store]
    ELSE IF c.raised = "CalledProcessError"
    THEN [ret |-> FALSE, raised |-> "none", calls |-> calls_, store |-> store]
    ELSE [ret |-> FALSE, raised |-> c.raised, calls |-> calls_, store |-> store]

backup_uncaught(cfg_dry_run, store, e) ==
    LET c == call_duplicacy_async(BackupCmd, cfg_dry_run, "None", e)
    IN  [ret |-> c.raised = "none", raised |-> c.raised, calls |-> <<c>>, store |-> store]

backup(cfg_dry_run, store, e) ==
    LET c == call_duplicacy_async(BackupCmd, cfg_dry_run, "None", e)
    IN  StepEnd(c, <<c>>, store)

prune(cfg_dry_run, store, e) ==
    LET c == call_duplicacy_async(PruneCmd, cfg_dry_run, "None", e)
    IN  StepEnd(c, <<c>>, store)

check(cfg_dry_run, store, e) ==
    LET c == call_duplicacy_async(CheckCmd, cfg_dry_run, "None", e)
    IN  StepEnd(c, <<c>>, store)

verify(source_dir, cfg_dry_run, store, now_, e1, e2, read_ok, write_ok) ==
    LET c1 == call_duplicacy_async(ListCmd, cfg_dry_run, "False", e1)
        matches == re_findall(c1.out)
        last == matches[Len(matches)]
        c2 == call_duplicacy_async(CheckChunksCmd(last.rev, last.id),
                                   cfg_dry_run, "None", e2)
        saved == save_stamp(source_dir, store, now_, read_ok, write_ok)
    IN  IF c1.raised # "none" THEN StepEnd(c1, <<c1>>, store)
        ELSE IF Len(matches) = 0
        THEN [ret |-> FALSE, raised |-> "none", calls |-> <<c1>>, store |-> store]
        ELSE IF c2.raised # "none" THEN StepEnd(c2, <<c1, c2>>, store)
        ELSE [ret |-> saved.raised = "none", raised |-> saved.raised,
              calls |-> <<c1, c2>>, store |-> saved.store]

\* ------------------------------------------------------------- Run Summary
\* a dict is the sequence of its items in insertion order
Keys(dict) == { dict[i].step : i \in 1..Len(dict) }

dict_set(dict, key, value) ==
    IF key \in Keys(dict)
    THEN [i \in 1..Len(dict) |->
             IF dict[i].step = key THEN [step |-> key, state |-> value] ELSE dict[i]]
    ELSE Append(dict, [step |-> key, state |-> value])

successful(summary_) ==
    ~ \E d \in DOMAIN summary_ :
        \E i \in 1..Len(summary_[d]) : summary_[d][i].state = FALSE

verification_branch_inverted(force, scheduled_) == ~force \/ scheduled_

\* line 363: args.force_verification or is_verification_scheduled(sd)
verification_branch(force, scheduled_) == force \/ scheduled_

summary_entry_swapped(backup_state, prune_state) ==
    dict_set(dict_set(<<>>, "prune", prune_state), "backup", backup_state)

\* line 362: {"backup": backup(sd), "prune": prune(sd)}
summary_entry(backup_state, prune_state) ==
    dict_set(dict_set(<<>>, "backup", backup_state), "prune", prune_state)

\* lines 372-373, and the status of a run that ends with an exception
exit_code(summary_) == IF ~successful(summary_) THEN "1" ELSE "0"

\* -------------------------------------------------------------------- state
VARIABLES
    pc,                  \* where main is: "idle" (no run), "loop", "prune",
                         \* "branch", "verify", "check"
    sd,                  \* position of the for loop over source_path_dirs
    dry_run,             \* config.dry_run
    force_verification,  \* args.force_verification
    now,                 \* datetime.now(), in days
    stamps,              \* the content of stamps.json
    summary,             \* summary
    results,             \* the items of line 362's dict evaluated so far
    calls,               \* the supervisor calls made by the last step of the
                         \* entry handled last (none for a skipped entry)
    exc,                 \* the exception that ended the run, or "none"
    exit_status,         \* exit status of the run that ended last, or "none"
    scheduled,           \* what is_verification_scheduled returned in this
                         \* directory's branch ("None": not called)
    read_ok              \* whether its load_stamps could read the store

mainvars == <<pc, sd, dry_run, force_verification, now, stamps, summary, results,
              calls, exc, exit_status, scheduled, read_ok>>

\* one live invocation of the supervisor (call_duplicacy_async,
\* call_rsync_async), step by step
VARIABLES
    sup_pc,              \* where the invocation is: "off" (none under way),
                         \* "create", "gather", "wait", "done"
    script,              \* the writes of the child process, in program order
    wpos,                \* how many of them it has done
    child_exit,          \* the code it exits with when nothing kills it
    child,               \* "none", "running", "exited"
    child_status,        \* the status it ended with (once child = "exited")
    killed,              \* process.kill() was called
    pipe,                \* per stream, the lines written and not yet read
    reader,              \* per stream, the read_stream task: "none",
                         \* "running", "eof" (returned), "failed", "cancelled"
    output,              \* per stream, read_stream's output so far
    pending,             \* the exception in flight through try/finally
    cancel_req,          \* the invocation's task was cancelled
    exitcode,            \* exitcode of line 160: <<>> while unbound, else <<code>>
    outcome              \* how the invocation ended

supvars == <<sup_pc, script, wpos, child_exit, child, child_status, killed, pipe,
             reader, output, pending, cancel_req, exitcode, outcome>>

vars == <<mainvars, supvars>>

EmptySummary == [d \in {} |-> <<>>]

\* ---------------------------------------------- the supervisor's invocation
Streams == {"stdout", "stderr"}

\* bytes that are no valid UTF-8: bytes.decode raises UnicodeDecodeError
Undecodable == {"0xff"}

\* the lines a child may write: one with a trailing blank, a plain one, one
\* that cannot be decoded
SupLines == { <<"a", " ">>, <<"b">>, <<"0xff">> }

decodes(line) == \A k \in 1..Len(line) : line[k] \notin Undecodable

Writes == [stream : Streams, line : SupLines]

Scripts == UNION { [1..n -> Writes] : n \in 0..MaxWrites }

ExitCodes == {0, 1}

\* returncode of a process that SIGKILL ended
SIGKILL_STATUS == 0 - 9

\* the lines among the writes ws that went to stream s
RECURSIVE LinesOf(_, _)
LinesOf(ws, s) ==
    IF ws = <<>> THEN <<>>
    ELSE (IF Head(ws).stream = s THEN <<Head(ws).line>> ELSE <<>>)
         \o LinesOf(Tail(ws), s)

\* what the child has written to stream s so far
Written(s) == LinesOf(SubSeq(script, 1, wpos), s)

NoOutcome == [kind |-> "none", returncode |-> 0, out |-> <<>>, err |-> <<>>]

\* an exception that carries no process result
Raise(kind) == [kind |-> kind, returncode |-> 0, out |-> <<>>, err |-> <<>>]

raise_or_return_without_output(exitcode_, out, err) ==
    IF exitcode_ # 0
    THEN [kind |-> "CalledProcessError", returncode |-> exitcode_,
          out |-> <<>>, err |-> <<>>]
    ELSE [kind |-> "return", returncode |-> 0, out |-> out, err |-> err]

\* lines 162-167: CalledProcessError(exitcode, cmd, out, err) or the
\* CompletedProcess
raise_or_return(exitcode_, out, err) ==
    IF exitcode_ # 0
    THEN [kind |-> "CalledProcessError", returncode |-> exitcode_,
          out |-> out, err |-> err]
    ELSE [kind |-> "return", returncode |-> 0, out |-> out, err |-> err]

\* no invocation is followed step by step
SupOff ==
    /\ sup_pc = "off"
    /\ script = <<>>
    /\ wpos = 0
    /\ child_exit = 0
    /\ child = "none"
    /\ child_status = 0
    /\ killed = FALSE
    /\ pipe = [s \in Streams |-> <<>>]
    /\ reader = [s \in Streams |-> "none"]
    /\ output = [s \in Streams |-> <<>>]
    /\ pending = "none"
    /\ cancel_req = FALSE
    /\ exitcode = <<>>
    /\ outcome = NoOutcome

\* ------------------------------------------------------------------- main

TickSteps == {VERIFY_DAYS - 1, VERIFY_DAYS, VERIFY_DAYS + 1}

Init ==
    /\ pc = "idle"
    /\ sd = 1
    /\ dry_run = FALSE
    /\ force_verification = FALSE
    /\ now = 0
    /\ stamps = EmptyStore
    /\ summary = EmptySummary
    /\ results = <<>>
    /\ calls = <<>>
    /\ exc = "none"
    /\ exit_status = "none"
    /\ scheduled = "None"
    /\ read_ok = TRUE
    /\ SupOff

\* the process exits: what it held in memory is gone
Exit(raised, status) ==
    /\ exc' = raised
    /\ exit_status' = status
    /\ pc' = "idle"
    /\ sd' = 1
    /\ dry_run' = FALSE
    /\ force_verification' = FALSE
    /\ summary' = EmptySummary
    /\ results' = <<>>
    /\ scheduled' = "None"
    /\ read_ok' = TRUE

\* an exception nothing catches ends the process with status 1
Abort(raised) == Exit(raised, "1")

\* the run goes on
Goto(pc_, sd_, summary_, results_) ==
    /\ pc' = pc_
    /\ sd' = sd_
    /\ summary' = summary_
    /\ results' = results_
    /\ UNCHANGED <<dry_run, force_verification, exc, exit_status>>

\* the clock advances between runs
Tick ==
    /\ pc = "idle"
    /\ \E dt \in TickSteps :
        /\ now + dt <= MaxTime
        /\ now' = now + dt
    /\ UNCHANGED <<pc, sd, dry_run, force_verification, stamps, summary, results,
                   calls, exc, exit_status, scheduled, read_ok>>
    /\ UNCHANGED supvars

\* lines 345-353: the configuration is read and the summary created
StartRun ==
    /\ pc = "idle"
    /\ \E dr \in BOOLEAN, fv \in BOOLEAN :
        /\ dry_run' = dr
        /\ force_verification' = fv
    /\ pc' = "loop"
    /\ sd' = 1
    /\ summary' = EmptySummary
    /\ results' = <<>>
    /\ calls' = <<>>
    /\ exc' = "none"
    /\ exit_status' = "none"
    /\ scheduled' = "None"
    /\ read_ok' = TRUE
    /\ UNCHANGED <<now, stamps>>
    /\ UNCHANGED supvars

\* lines 355-360: an entry that is no directory or no duplicacy repository
Skip ==
    /\ pc = "loop"
    /\ sd <= NumDirs
    /\ sd' = sd + 1
    /\ calls' = <<>>
    /\ UNCHANGED <<pc, dry_run, force_verification, now, stamps, summary, results,
                   exc, exit_status, scheduled, read_ok>>
    /\ UNCHANGED supvars

\* line 362, first item
Backup ==
    /\ pc = "loop"
    /\ sd <= NumDirs
    /\ \E e \in QuietRuns :
        LET r == backup(dry_run, stamps, e)
        IN  /\ calls' = r.calls
            /\ stamps' = r.store
            /\ IF r.raised = "none"
               THEN /\ Goto("prune", sd, summary, <<r.ret>>)
                    /\ UNCHANGED <<scheduled, read_ok>>
               ELSE Abort(r.raised)
    /\ UNCHANGED now
    /\ UNCHANGED supvars

Prune_skipped ==
    /\ pc = "prune"
    /\ Goto("branch", sd,
            [d \in DOMAIN summary \cup {sd} |->
                IF d = sd THEN summary_entry(results[1], TRUE) ELSE summary[d]],
            <<>>)
    /\ UNCHANGED <<now, stamps, calls, scheduled, read_ok>>
    /\ UNCHANGED supvars

\* line 362, second item and the assignment
Prune ==
    /\ pc = "prune"
    /\ \E e \in QuietRuns :
        LET r == prune(dry_run, stamps, e)
        IN  /\ calls' = r.calls
            /\ stamps' = r.store
            /\ IF r.raised = "none"
               THEN /\ Goto("branch", sd,
                            [d \in DOMAIN summary \cup {sd} |->
                                IF d = sd THEN summary_entry(results[1], r.ret)
                                ELSE summary[d]],
                            <<>>)
                    /\ UNCHANGED <<scheduled, read_ok>>
               ELSE Abort(r.raised)
    /\ UNCHANGED now
    /\ UNCHANGED supvars

\* line 363
Branch ==
    /\ pc = "branch"
    /\ IF force_verification
       THEN /\ pc' = IF verification_branch(TRUE, FALSE) THEN "verify" ELSE "check"
            /\ UNCHANGED <<scheduled, read_ok>>
       ELSE \E rd \in BOOLEAN :
               LET s == is_verification_scheduled(sd, stamps, now, rd)
               IN  /\ scheduled' = IF s THEN "True" ELSE "False"
                   /\ read_ok' = rd
                   /\ pc' = IF verification_branch(FALSE, s) THEN "verify" ELSE "check"
    /\ UNCHANGED <<sd, dry_run, force_verification, now, stamps, summary, results,
                   calls, exc, exit_status>>
    /\ UNCHANGED supvars

\* the third step ended: its result is stored and the loop goes on
StepDone(r, name) ==
    /\ calls' = r.calls
    /\ stamps' = r.store
    /\ IF r.raised = "none"
       THEN /\ Goto("loop", sd + 1,
                    [summary EXCEPT ![sd] = dict_set(@, name, r.ret)], results)
            /\ scheduled' = "None"
            /\ read_ok' = TRUE
       ELSE Abort(r.raised)
    /\ UNCHANGED now
    /\ UNCHANGED supvars

\* line 364
Verify ==
    /\ pc = "verify"
    /\ \E e1 \in ListRuns, e2 \in QuietRuns, rd \in BOOLEAN, wr \in BOOLEAN :
        StepDone(verify(sd, dry_run, stamps, now, e1, e2, rd, wr), "verify")

\* line 366
Check ==
    /\ pc = "check"
    /\ \E e \in QuietRuns : StepDone(check(dry_run, stamps, e), "check")

\* lines 368-373: mail_ok = FALSE is email_notify raising
Report ==
    /\ pc = "loop"
    /\ sd > NumDirs
    /\ \E mail_ok \in BOOLEAN :
        IF mail_ok THEN Exit("none", exit_code(summary)) ELSE Abort("SMTPError")
    /\ UNCHANGED <<now, stamps, calls>>
    /\ UNCHANGED supvars

Next ==
    \/ Tick
    \/ StartRun
    \/ Skip
    \/ Backup
    \/ Prune
    \/ Branch
    \/ Verify
    \/ Check
    \/ Report

Spec == Init /\ [][Next]_vars

\* ------------------------------------- one invocation of the supervisor
\* A live invocation with its child process, the two pipes and the two
\* read_stream tasks, under the semantics of asyncio in Python 3.8 and
\* later: CancelledError is no Exception, kill() sends SIGKILL, and
\* process.wait() resumes the caller only after the child has ended and
\* the tasks that were reading its pipes have seen the end of stream.
InitSup ==
    /\ pc = "idle"
    /\ sd = 1
    /\ dry_run = FALSE
    /\ force_verification = FALSE
    /\ now = 0
    /\ stamps = EmptyStore
    /\ summary = EmptySummary
    /\ results = <<>>
    /\ calls = <<>>
    /\ exc = "none"
    /\ exit_status = "none"
    /\ scheduled = "None"
    /\ read_ok = TRUE
    /\ sup_pc = "create"
    /\ script \in Scripts
    /\ wpos = 0
    /\ child_exit \in ExitCodes
    /\ child = "none"
    /\ child_status = 0
    /\ killed = FALSE
    /\ pipe = [s \in Streams |-> <<>>]
    /\ reader = [s \in Streams |-> "none"]
    /\ output = [s \in Streams |-> <<>>]
    /\ pending = "none"
    /\ cancel_req = FALSE
    /\ exitcode = <<>>
    /\ outcome = NoOutcome

\* lines 140-150: the process is created and gather starts both readers
Spawn ==
    /\ sup_pc = "create"
    /\ sup_pc' = "gather"
    /\ child' = "running"
    /\ reader' = [s \in Streams |-> "running"]
    /\ UNCHANGED <<script, wpos, child_exit, child_status, killed, pipe, output,
                   pending, cancel_req, exitcode, outcome>>
    /\ UNCHANGED mainvars

\* the child writes its next line; the write blocks while the pipe is full
ChildWrite ==
    /\ child = "running"
    /\ wpos < Len(script)
    /\ LET w == script[wpos + 1]
       IN  /\ Len(pipe[w.stream]) < PipeCap
           /\ pipe' = [pipe EXCEPT ![w.stream] = Append(@, w.line)]
    /\ wpos' = wpos + 1
    /\ UNCHANGED <<sup_pc, script, child_exit, child, child_status, killed, reader,
                   output, pending, cancel_req, exitcode, outcome>>
    /\ UNCHANGED mainvars

\* the child has written everything and exits: its pipe ends close
ChildExit ==
    /\ child = "running"
    /\ wpos = Len(script)
    /\ child' = "exited"
    /\ child_status' = child_exit
    /\ UNCHANGED <<sup_pc, script, wpos, child_exit, killed, pipe, reader, output,
                   pending, cancel_req, exitcode, outcome>>
    /\ UNCHANGED mainvars

\* read_stream, lines 120-124: one line is read, decoded, stripped, appended
ReadLine(s) ==
    /\ reader[s] = "running"
    /\ pipe[s] # <<>>
    /\ pipe' = [pipe EXCEPT ![s] = Tail(@)]
    /\ IF decodes(Head(pipe[s]))
       THEN /\ output' = [output EXCEPT ![s] = @ \o rstrip(Head(pipe[s]))]
            /\ UNCHANGED reader
       ELSE /\ reader' = [reader EXCEPT ![s] = "failed"]
            /\ UNCHANGED output
    /\ UNCHANGED <<sup_pc, script, wpos, child_exit, child, child_status, killed,
                   pending, cancel_req, exitcode, outcome>>
    /\ UNCHANGED mainvars

\* read_stream, lines 125-126: readline returns b"" at the end of stream
ReadEOF(s) ==
    /\ reader[s] = "running"
    /\ pipe[s] = <<>>
    /\ child = "exited"
    /\ reader' = [reader EXCEPT ![s] = "eof"]
    /\ UNCHANGED <<sup_pc, script, wpos, child_exit, child, child_status, killed,
                   pipe, output, pending, cancel_req, exitcode, outcome>>
    /\ UNCHANGED mainvars

\* lines 148-150: both readers returned, out and err are bound
GatherReturn ==
    /\ sup_pc = "gather"
    /\ \A s \in Streams : reader[s] = "eof"
    /\ sup_pc' = "wait"
    /\ UNCHANGED <<script, wpos, child_exit, child, child_status, killed, pipe,
                   reader, output, pending, cancel_req, exitcode, outcome>>
    /\ UNCHANGED mainvars

GatherRaise_without_kill ==
    /\ sup_pc = "gather"
    /\ \E s \in Streams : reader[s] = "failed"
    /\ pending' = "UnicodeDecodeError"
    /\ sup_pc' = "wait"
    /\ UNCHANGED <<script, wpos, child_exit, child, child_status, killed, pipe,
                   reader, output, cancel_req, exitcode, outcome>>
    /\ UNCHANGED mainvars

\* lines 151-158: a reader raised; except Exception: process.kill(); raise
GatherRaise ==
    /\ sup_pc = "gather"
    /\ \E s \in Streams : reader[s] = "failed"
    /\ killed' = TRUE
    /\ child' = "exited"
    /\ child_status' = IF child = "running" THEN SIGKILL_STATUS ELSE child_status
    /\ pending' = "UnicodeDecodeError"
    /\ sup_pc' = "wait"
    /\ UNCHANGED <<script, wpos, child_exit, pipe, reader, output, cancel_req,
                   exitcode, outcome>>
    /\ UNCHANGED mainvars

\* the task is cancelled while it awaits gather: the readers that still run
\* are cancelled, CancelledError passes by except Exception and reaches the
\* finally clause
CancelGather ==
    /\ sup_pc = "gather"
    /\ ~cancel_req
    /\ cancel_req' = TRUE
    /\ reader' = [s \in Streams |->
                     IF reader[s] = "running" THEN "cancelled" ELSE reader[s]]
    /\ pending' = "CancelledError"
    /\ sup_pc' = "wait"
    /\ UNCHANGED <<script, wpos, child_exit, child, child_status, killed, pipe,
                   output, exitcode, outcome>>
    /\ UNCHANGED mainvars

\* the task is cancelled while it awaits process.wait() in the finally
\* clause: CancelledError leaves the invocation at once
CancelWait ==
    /\ sup_pc = "wait"
    /\ ~cancel_req
    /\ cancel_req' = TRUE
    /\ outcome' = Raise("CancelledError")
    /\ sup_pc' = "done"
    /\ UNCHANGED <<script, wpos, child_exit, child, child_status, killed, pipe,
                   reader, output, pending, exitcode>>
    /\ UNCHANGED mainvars

\* lines 160-167: process.wait() returns; the exception in flight goes on,
\* or the exit code decides
WaitReturn ==
    /\ sup_pc = "wait"
    /\ child = "exited"
    /\ \A s \in Streams : reader[s] # "running"
    /\ exitcode' = <<child_status>>
    /\ outcome' = IF pending # "none"
                  THEN Raise(pending)
                  ELSE raise_or_return(child_status, output["stdout"], output["stderr"])
    /\ sup_pc' = "done"
    /\ UNCHANGED <<script, wpos, child_exit, child, child_status, killed, pipe,
                   reader, output, pending, cancel_req>>
    /\ UNCHANGED mainvars

NextSup ==
    \/ Spawn
    \/ ChildWrite
    \/ ChildExit
    \/ \E s \in Streams : ReadLine(s)
    \/ \E s \in Streams : ReadEOF(s)
    \/ GatherReturn
    \/ GatherRaise
    \/ CancelGather
    \/ CancelWait
    \/ WaitReturn

SpecSup == InitSup /\ [][NextSup]_vars

\* ================================================================== claims
Raised(kind) == \E i \in 1..Len(calls) : calls[i].raised = kind

Finished(d) == d \in DOMAIN summary /\ d < sd

\* a line of the shape  Snapshot <id> revision <n>
LineHasShape(line) == re_findall(line) # <<>>

\* C1: a non-zero exit code of backup, prune, list or check never ends the
\* run: the failed step is recorded as a false result, the pipeline is then
\* at its next step, a directory that was entered has all three results
\* when the loop moves on, and the loop ends only past the last entry.
C1_PartialFailureContained ==
    /\ exc # "CalledProcessError"
    /\ pc = "prune" =>
          /\ Len(calls) = 1
          /\ results = <<calls[1].raised # "CalledProcessError">>
    /\ pc = "branch" =>
          /\ Len(calls) = 1
          /\ sd \in DOMAIN summary
          /\ summary[sd][2].state = (calls[1].raised # "CalledProcessError")
    /\ (pc = "loop" /\ calls # <<>>) =>
          /\ Finished(sd - 1)
          /\ Raised("CalledProcessError") => summary[sd - 1][3].state = FALSE
    /\ pc = "loop" => \A d \in DOMAIN summary : d < sd /\ Len(summary[d]) = 3

C1_Witness ==
    /\ pc = "loop"
    /\ sd = 3
    /\ DOMAIN summary = {1, 2}
    /\ summary[1][1].state = FALSE
    /\ summary[1][2].state = TRUE
    /\ Len(summary[1]) = 3
    /\ Len(summary[2]) = 3

\* C2 (as claimed): a step whose executable cannot be started is recorded as
\* a false result, nothing is raised out of the pipeline and the run goes on.
C2_LaunchFailureContained ==
    Raised("LaunchError") => (exc = "none" /\ pc # "idle")

\* C3 (as claimed): in dry-run mode no call of the pipeline launches a
\* process, and every call returns normally with empty stdout and stderr.
C3_DryRunNeverLaunches ==
    dry_run =>
        \A i \in 1..Len(calls) :
            /\ ~calls[i].launched
            /\ calls[i].raised = "none"
            /\ calls[i].out = <<>>
            /\ calls[i].err = <<>>

\* C3 (amended): in dry-run mode every call but list (backup, prune,
\* check -chunks, check) launches no process and returns normally with
\* empty stdout and stderr; list is called with dry_run=False and is the
\* only call that is not a dry run.
C3_DryRunLaunchesOnlyList ==
    dry_run =>
        \A i \in 1..Len(calls) :
            IF calls[i].command = <<duplicacy_command>> \o ListCmd
            THEN ~calls[i].dry_run
            ELSE /\ calls[i].dry_run
                 /\ ~calls[i].launched
                 /\ calls[i].raised = "none"
                 /\ calls[i].out = <<>>
                 /\ calls[i].err = <<>>

C3_Witness ==
    /\ dry_run
    /\ Len(calls) = 2
    /\ calls[1].launched
    /\ calls[2].command[2] = <<"check">>
    /\ ~calls[2].launched
    /\ calls[2].out = <<>>

\* C4 (as claimed): no step of a run in dry-run mode changes the stamp store.
C4_DryRunKeepsStore == [][dry_run => stamps' = stamps]_vars

\* C5: a directory whose pipeline has finished has exactly three results, in
\* the order backup, prune, then one of verify and check; a directory that
\* is still in its pipeline has backup and prune, in this order.
C5_SummaryShape ==
    \A d \in DOMAIN summary :
        /\ summary[d][1].step = "backup"
        /\ summary[d][2].step = "prune"
        /\ IF Finished(d)
           THEN /\ Len(summary[d]) = 3
                /\ summary[d][3].step \in {"verify", "check"}
           ELSE /\ Len(summary[d]) = 2
                /\ d = sd
                /\ pc \in {"branch", "verify", "check"}

C5_Witness ==
    /\ Finished(1)
    /\ Finished(2)
    /\ summary[1][3].step = "check"
    /\ summary[2][3].step = "verify"

\* C6: the pipeline is at verify iff the force flag is set or the directory
\* is due, and at check otherwise; with the force flag it is at verify
\* whatever the stamp says.
C6_BranchSelection ==
    pc \in {"verify", "check"} =>
        /\ pc = "verify" <=>
              (force_verification \/ is_verification_scheduled(sd, stamps, now, read_ok))
        /\ force_verification => pc = "verify"

C6_Witness ==
    /\ pc = "verify"
    /\ force_verification
    /\ sd \in DOMAIN stamps
    /\ now - stamps[sd] = 0

\* C7: is_verification_scheduled returns true iff the store it loaded has no
\* stamp for the directory or the stamp is more than 90 days old: false at
\* 89 and at exactly 90 days after the stamp, true at 91.
C7_DueAfter90Days ==
    (pc \in {"verify", "check"} /\ scheduled # "None") =>
        LET loaded == IF read_ok THEN stamps ELSE EmptyStore
        IN  /\ scheduled = "True" <=>
                  (sd \notin DOMAIN loaded \/ now - loaded[sd] > 90)
            /\ (sd \in DOMAIN loaded /\ now - loaded[sd] \in {89, 90}) =>
                  (scheduled = "False" /\ pc = "check")
            /\ (sd \in DOMAIN loaded /\ now - loaded[sd] = 91) => scheduled = "True"

C7_Witness ==
    /\ pc = "check"
    /\ scheduled = "False"
    /\ read_ok
    /\ sd \in DOMAIN stamps
    /\ now - stamps[sd] = 90

StampChanged(d) ==
    \/ (d \in DOMAIN stamps) # (d \in DOMAIN stamps')
    \/ (d \in DOMAIN stamps /\ d \in DOMAIN stamps' /\ stamps'[d] # stamps[d])

\* C8 (as claimed): the stamp of a directory changes only in the step in
\* which this directory's verify returns true.
C8_StampOnlyOnVerifyTrue ==
    [][\A d \in Dirs :
          StampChanged(d) =>
              /\ pc = "verify"
              /\ sd = d
              /\ pc' = "loop"
              /\ summary'[d][3] = [step |-> "verify", state |-> TRUE]]_vars

\* C9 (as claimed): when list returns and no line of its output has the shape
\* Snapshot <id> revision <n>, verify returns false and the list call is the
\* only call it made.
C9_NoSnapshotLineFails ==
    (/\ calls # <<>>
     /\ calls[1].command = <<duplicacy_command>> \o ListCmd
     /\ calls[1].raised = "none"
     /\ \A k \in 1..Len(calls[1].stdout) : ~LineHasShape(calls[1].stdout[k])) =>
        /\ Len(calls) = 1
        /\ pc = "loop"
        /\ summary[sd - 1][3] = [step |-> "verify", state |-> FALSE]

\* C10 (as claimed): a run ends with a failure status iff some recorded
\* step result is false.
C10_ExitStatusIsOverallSuccess ==
    [][(pc # "idle" /\ pc' = "idle") =>
          (exit_status' # "0" <=>
              \E d \in DOMAIN summary :
                  \E i \in 1..Len(summary[d]) : ~summary[d][i].state)]_vars

\* C14 (as claimed): a failure to write the stamp store does not end the run:
\* no run ends with the exception of the failed write.
C14_StampWriteFailureContained == exc # "WriteError"

\* the command of the only call of the last step
LastStepRan(command) ==
    /\ Len(calls) = 1
    /\ calls[1].command = <<duplicacy_command>> \o command

\* C16: the steps of a directory run in the order backup, prune, then exactly
\* one of verify and check: prune starts right after backup's call, the third
\* step right after prune's, the loop moves on right after a verify or a
\* check, and no directory after the current one has a step on record.
C16_PipelineOrder ==
    /\ pc = "prune" =>
          /\ LastStepRan(BackupCmd)
          /\ Len(results) = 1
          /\ sd \notin DOMAIN summary
    /\ pc \in {"branch", "verify", "check"} =>
          /\ LastStepRan(PruneCmd)
          /\ Keys(summary[sd]) = {"backup", "prune"}
    /\ (pc = "loop" /\ calls # <<>>) =>
          /\ Finished(sd - 1)
          /\ Keys(summary[sd - 1]) \in {{"backup", "prune", "verify"},
                                        {"backup", "prune", "check"}}
          /\ "check" \in Keys(summary[sd - 1]) => LastStepRan(CheckCmd)
          /\ "verify" \in Keys(summary[sd - 1]) =>
                calls[1].command = <<duplicacy_command>> \o ListCmd
    /\ \A d \in DOMAIN summary : d <= sd
    /\ pc \in {"loop", "prune"} => \A d \in DOMAIN summary : d < sd

C16_Witness ==
    /\ pc = "loop"
    /\ sd = 3
    /\ DOMAIN summary = {1, 2}
    /\ Keys(summary[1]) = {"backup", "prune", "verify"}
    /\ Keys(summary[2]) = {"backup", "prune", "check"}
    /\ LastStepRan(CheckCmd)

\* the matches of the last line of the output that has the shape
\* Snapshot <id> revision <n>
LastShapedLine(stdout) ==
    LET shaped == { k \in 1..Len(stdout) : LineHasShape(stdout[k]) }
        k == CHOOSE k \in shaped : \A m \in shaped : m <= k
    IN  re_findall(stdout[k])

\* C19 (as claimed): when list returns and some line of its output has the
\* shape, verify calls check -chunks with the id and the revision of the
\* last such line.
C19_ChunkCheckOfLastSnapshotLine ==
    (/\ calls # <<>>
     /\ calls[1].command = <<duplicacy_command>> \o ListCmd
     /\ calls[1].raised = "none"
     /\ \E k \in 1..Len(calls[1].stdout) : LineHasShape(calls[1].stdout[k])) =>
        LET m == LastShapedLine(calls[1].stdout)
        IN  /\ Len(calls) = 2
            /\ calls[2].command =
                  <<duplicacy_command>> \o CheckChunksCmd(m[Len(m)].rev, m[Len(m)].id)

\* C20 (as claimed): a step that records a verification of directory sd sets
\* its stamp to the current time and leaves every other entry as it was; no
\* step removes an entry of the store.
C20_StoreOnlyGrows ==
    [][/\ \A d \in DOMAIN stamps : d \in DOMAIN stamps'
       /\ StampChanged(sd) =>
             /\ stamps'[sd] = now
             /\ \A d \in Dirs \ {sd} : ~StampChanged(d)]_vars

\* C11 (as claimed): an invocation returns normally iff its process ended
\* with exit code 0, and for every other exit code it raises
\* CalledProcessError with this code and the captured stdout and stderr.
C11_ReturnsIffExitZero ==
    sup_pc = "done" =>
        /\ outcome.kind = "return" <=> child_status = 0
        /\ child_status # 0 =>
              outcome = [kind |-> "CalledProcessError", returncode |-> child_status,
                         out |-> output["stdout"], err |-> output["stderr"]]

\* C11 (amended): an invocation that was not cancelled and in which no
\* reader failed returns normally iff the exit code is 0, with what
\* read_stream makes of all the lines written, and otherwise raises
\* CalledProcessError with the exit code and these texts; a cancelled
\* invocation raises CancelledError and one with a failed reader the
\* reader's exception, whatever the exit code.
C11_ReturnsIffExitZeroAndReadersEnded ==
    sup_pc = "done" =>
        IF cancel_req THEN outcome = Raise("CancelledError")
        ELSE IF \E s \in Streams : reader[s] = "failed"
        THEN outcome = Raise("UnicodeDecodeError")
        ELSE /\ exitcode = <<child_status>>
             /\ outcome =
                  [kind |-> IF child_status = 0 THEN "return" ELSE "CalledProcessError",
                   returncode |-> child_status,
                   out |-> read_stream(Written("stdout")),
                   err |-> read_stream(Written("stderr"))]

C11_Witness ==
    /\ sup_pc = "done"
    /\ ~cancel_req
    /\ outcome.kind = "CalledProcessError"
    /\ outcome.returncode = 1
    /\ outcome.out = <<"a", "b">>
    /\ outcome.err = <<"b">>

\* the lines one after the other, as they were written
RECURSIVE Concat(_)
Concat(lines) == IF lines = <<>> THEN <<>> ELSE Head(lines) \o Concat(Tail(lines))

\* C12 (as claimed): when the process ended with exit code 0 and the
\* invocation returns, the captured stdout and the captured stderr are the
\* concatenation of the lines the process wrote to that stream, in order.
C12_CapturedEqualsWritten ==
    (sup_pc = "done" /\ outcome.kind = "return") =>
        /\ outcome.out = Concat(Written("stdout"))
        /\ outcome.err = Concat(Written("stderr"))

\* C13 (as claimed): the invocation is never stuck with its child blocked on
\* a full pipe: whenever the child waits for room in a pipe, a reader can
\* take a line or the invocation itself can take its next step.
C13_NoDrainDeadlock ==
    (/\ child = "running"
     /\ wpos < Len(script)
     /\ Len(pipe[script[wpos + 1].stream]) >= PipeCap) =>
        \/ \E s \in Streams : reader[s] = "running" /\ pipe[s] # <<>>
        \/ sup_pc = "gather"

\* C15 (as claimed): a cancelled invocation kills its child, waits for it to
\* end and only then lets the cancellation go on: it never waits for a child
\* it has not killed, and it ends only with an exit code in hand.
C15_CancelKillsThenAwaits ==
    /\ (sup_pc = "wait" /\ pending = "CancelledError" /\ child = "running") => killed
    /\ (sup_pc = "done" /\ cancel_req) => exitcode # <<>>

\* C17 (as claimed): the exit code is in hand only when both readers are at
\* the end of their stream or the process was killed, and the invocation
\* has not ended while a reader is running.
C17_ExitCodeAfterReaders ==
    /\ exitcode # <<>> => (killed \/ \A s \in Streams : reader[s] = "eof")
    /\ sup_pc = "done" => \A s \in Streams : reader[s] # "running"

====
